---------------------------- MODULE Spec2Model ----------------------------
(***************************************************************************)
(* A model of folly/experimental/symbolizer/Symbolizer.cpp:                *)
(*   - Symbolizer::symbolize, as a step machine over the outer loop (the   *)
(*     loaded objects) and the inner loop (the addresses), with the symbol *)
(*     cache (an EvictingCacheMap behind a lock) and setSymbolizedFrame;   *)
(*   - AddressFormatter::format;                                           *)
(*   - SafeStackTracePrinter / FastStackTracePrinter::printStackTrace.     *)
(* Frame indices are 0-based as in the source; the sequence holding the    *)
(* frames is 1-based, so frame i of the source is frames[i + 1].           *)
(***************************************************************************)
EXTENDS Integers, Sequences, FiniteSets, TLC

VARIABLES
  mode,             \* Symbolizer::mode_
  symbolCacheSize,  \* the constructor's symbolCacheSize (0: no symbolCache_)
  symbolCache,      \* symbolCache_: entries [key, val], most recently used first
                    \* (ghost fields: origin, the group as it stood in the caller's
                    \* buffer, and old, whether an earlier call stored the entry)
  rVersion,         \* _r_debug.r_version
  selfExe,          \* whether readlink("/proc/self/exe") succeeds in this process
  addrs,            \* the addrs range of the running (or last) call
  frames,           \* the frames range of the running (or last) call
  addrCount,        \* local addrCount
  remaining,        \* local remaining
  lm,               \* the outer loop's position in the link map (1-based)
  i,                \* the inner loop's index
  addr,             \* local addr (line 160)
  numInlined,       \* local numInlined (line 193)
  pc,               \* the position of symbolize
  owner,            \* ghost: owner[p] is the input index slot p stands for, 0 for none
  inFrames,         \* ghost: the buffer as the caller passed it to this call
  again,            \* ghost: the call repeats the last one on the buffer it left
  exitPath,         \* ghost: how the call got past (or returned from) lines 111-124
  hi,               \* ghost: one past the highest frame index the last step touched
  accessed,         \* ghost: the collaborators this call has used
  served,           \* ghost: input index -> the group of the earlier call's entry replayed for it
  nofit,            \* ghost: input indices that met a cache hit which did not fit
  produced,         \* ghost: address -> the group its first direct resolution produced
                    \* (kept for a Symbolizer with a symbol cache), and whether an
                    \* earlier call produced it
  printerKind,      \* which printStackTrace runs: "safe" or "fast"
  symbolizeArg,     \* printStackTrace's argument symbolize
  captureOk,        \* what getStackTraceSafe returned
  stack,            \* the addresses of the FrameArray after getStackTraceSafe
  out,              \* the pieces this printStackTrace call has printed, in order
  buf_,             \* AddressFormatter::buf_ of the formatter of lines 513 / 557
  idx,              \* the index of the loop of lines 514 / 558
  symbolizerCalls,  \* how often this printStackTrace call has invoked symbolize
  flushed,          \* whether this printStackTrace call has flushed
  ppc,              \* the position of printStackTrace
  bufferSize,       \* FDSymbolizePrinter's constructor argument bufferSize
  buffer_,          \* the bytes held in FDSymbolizePrinter::buffer_
  written,          \* the bytes written to the descriptor fd_, in order
  printed,          \* ghost: the strings handed to doPrint, concatenated in call order
  sinkOp,           \* ghost: the last operation on the sink
  options_,         \* SymbolizePrinter::options_, as the set of the options that are set
  isTty_,           \* SymbolizePrinter::isTty_
  frame_,           \* the frame handed to print(frame)
  rendered,         \* the pieces print(frame) handed to doPrint, in order
  rpc,              \* the position of print(frame)
  pageSizeUnchecked_, \* UnsafeSelfAllocateStackTracePrinter::pageSizeUnchecked_
  ptr,              \* the pointer mmap returned: "NULL", "MAP_FAILED" or "stack"
  region,           \* the mmap-allocated stack: "none", "mapped" or "unmapped"
  guards,           \* the ranges of the region made PROT_NONE, as offsets [from, to)
  ucStack,          \* alt.uc_stack: ss_sp (as an offset into the region) and ss_size
  context,          \* the context that is executing: "cur" or "alt"
  addresses_,       \* the frames of addresses_ as symbolize left them
  passed,           \* ghost: the steps of this call that succeeded
  apc,              \* the position of printSymbolizedStackTrace
  wlockHolder,      \* the thread that holds the write lock of symbolCache_, 0 for none
  tpc,              \* per thread: its position in the inner loop of symbolize
  taddr,            \* per thread: local addr (line 160)
  tlm,              \* per thread: the link map entry its outer loop is at
  tcopy             \* per thread: the cached frames it copied out last (lines 179-182)

symVars == << mode, symbolCacheSize, symbolCache, rVersion, selfExe, addrs, frames,
              addrCount, remaining, lm, i, addr, numInlined, pc, owner,
              inFrames, again, exitPath, hi, accessed,
              served, nofit, produced >>

printVars == << printerKind, symbolizeArg, captureOk, stack, out, buf_, idx,
                symbolizerCalls, flushed, ppc >>

sinkVars == << bufferSize, buffer_, written, printed, sinkOp >>

\* What symbolize leaves alone, what printStackTrace leaves alone, and what
\* the sink leaves alone.
renderVars == << options_, isTty_, frame_, rendered, rpc >>

altVars == << pageSizeUnchecked_, ptr, region, guards, ucStack, context, addresses_, passed,
             apc >>

threadVars == << wlockHolder, tpc, taddr, tlm, tcopy >>

besidesSym == << printVars, sinkVars, renderVars, altVars, threadVars >>
besidesPrint == << symVars, renderVars, altVars, threadVars >>
besidesSink == << symVars, printVars, renderVars, altVars, threadVars >>
besidesRender == << symVars, printVars, sinkVars, altVars, threadVars >>
besidesAlt == << symVars, renderVars, threadVars, printerKind, symbolizeArg, captureOk,
                 buf_, idx, flushed, ppc >>
besidesThreads == << printVars, sinkVars, renderVars, altVars,
                     mode, symbolCacheSize, rVersion, selfExe, addrs, frames, addrCount,
                     remaining, lm, i, addr, numInlined, pc, owner, inFrames, again,
                     exitPath, hi, accessed, served, nofit, produced >>

vars == << symVars, printVars, sinkVars, renderVars, altVars, threadVars >>

----------------------------------------------------------------------------
(* Bounds of the model. *)

\* The longest address sequence handed to symbolize.
MaxAddrs == 3
\* The most trailing scratch frames (frames.size() - addrs.size()).
MaxSlack == 2
\* Dwarf::kMaxInlineLocationInfoPerFrame (10 in Dwarf.h), scaled down.
kMaxInlineLocationInfoPerFrame == 1
\* The capacity of an enabled symbol cache.
MaxSymbolCache == 1

Min(a, b) == IF a < b THEN a ELSE b
Max(a, b) == IF a > b THEN a ELSE b

----------------------------------------------------------------------------
(* The process: the link map, the object files and their debug info. *)

\* _r_debug.r_map: l_addr is the load bias; openable says whether
\* cache_->getFile(objPath) returns a file; sections are the unrelocated
\* addresses getSectionContainingAddress accepts.
LinkMap == <<
  [l_addr |-> 2, openable |-> TRUE,  sections |-> {1, 2}],
  [l_addr |-> 4, openable |-> FALSE, sections |-> {1}],
  [l_addr |-> 6, openable |-> TRUE,  sections |-> {1, 2}] >>

\* The addresses a caller passes: 3 (object 1, a symbol with inlined calls),
\* 5 (object 2, whose file cannot be opened), 8 (object 3, in a section but
\* with no symbol definition).
AddrSet == {3, 5, 8}

\* ElfFile::getDefinitionByAddress(address).first
HasDefinition(o, a) == << o, a >> = << 1, 1 >>

\* The inlined calls the debug info records at an address, outermost first.
InlineDepth(o, a) == IF << o, a >> = << 1, 1 >> THEN 3 ELSE 0

\* ElfFile::getSymbolName
SymbolName(o, a) == o * 10 + a

ModeSet == { "FULL", "FULL_WITH_INLINE" }

\* SymbolizedFrame::clear(): a default frame.
ClearFrame == [found |-> FALSE, addr |-> 0, name |-> 0, location |-> 0]

\* How many inline frames Dwarf::findAddress writes into a range of size n.
InlineWritten(o, a, md, n) ==
  IF md = "FULL_WITH_INLINE" THEN Min(InlineDepth(o, a), n) ELSE 0

\* The d-th slot Dwarf::findAddress fills in the inline range (0-based): of
\* the w inlined calls that fit, the innermost comes first.
InlineFrame(o, a, w, d) ==
  [found |-> TRUE, addr |-> a, name |-> SymbolName(o, a) * 10 + (w - d),
   location |-> 200 + SymbolName(o, a) * 10 + (w - d)]

\* The location Dwarf::findAddress gives the frame itself: the call site of
\* the outermost inlined call when inline frames were written, the line of
\* the address otherwise.
LocationOf(o, a, w) ==
  IF w > 0 THEN 200 + SymbolName(o, a) * 10 ELSE 100 + SymbolName(o, a)

----------------------------------------------------------------------------
(* Ranges of frames. *)

\* Element p (0-based) of a sequence; dflt outside it.
Get(s, p, dflt) == IF p >= 0 /\ p < Len(s) THEN s[p + 1] ELSE dflt

\* countFrames: the length of the leading run of found frames of s.
RECURSIVE countFrames(_)
countFrames(s) ==
  IF s = << >> \/ ~Head(s).found THEN 0 ELSE 1 + countFrames(Tail(s))

\* framesRange [from, to) (0-based, half open) of s.
Range(s, from, to) == [p \in 1..Max(to - from, 0) |-> Get(s, from + p - 1, ClearFrame)]

\* std::rotate(first, middle, last): the element at middle comes first.
Rotate(s, first, middle, last, dflt) ==
  [p \in 1..Len(s) |->
     IF p - 1 >= first /\ p - 1 < last /\ last > first
       THEN Get(s, first + ((p - 1 - first + (middle - first)) % (last - first)), dflt)
       ELSE s[p]]

\* std::move_backward(first, last, dLast): [first, last) moved to end at dLast.
MoveBackward(s, first, last, dLast, dflt) ==
  [p \in 1..Len(s) |->
     IF p - 1 >= dLast - (last - first) /\ p - 1 < dLast
       THEN Get(s, (p - 1) - (dLast - last), dflt)
       ELSE s[p]]

\* std::copy of src (a sequence) to s starting at dFirst.
CopyTo(s, src, dFirst) ==
  [p \in 1..Len(s) |->
     IF p - 1 >= dFirst /\ p - 1 < dFirst + Len(src) THEN src[p - dFirst] ELSE s[p]]

----------------------------------------------------------------------------
(* setSymbolizedFrame (lines 63-83). *)

\* The frame it leaves in `frame` for unrelocated address a of object o, when
\* w inline frames were written.
setSymbolizedFrame(o, a, w) ==
  IF ~HasDefinition(o, a)
    THEN [ClearFrame EXCEPT !.found = TRUE]
    ELSE [found |-> TRUE, addr |-> a, name |-> SymbolName(o, a),
          location |-> LocationOf(o, a, w)]

\* The inline frames it has Dwarf::findAddress write into a range of size n.
extraInlineFrames(o, a, md, n) ==
  IF ~HasDefinition(o, a) THEN << >>
  ELSE [d \in 1..InlineWritten(o, a, md, n) |->
          InlineFrame(o, a, InlineWritten(o, a, md, n), d - 1)]

----------------------------------------------------------------------------
(* The symbol cache: folly::EvictingCacheMap<uintptr_t, CachedSymbolizedFrames>. *)

\* CachedSymbolizedFrames: std::array<SymbolizedFrame, 1 + kMaxInline...>,
\* default frames overwritten by the group.
CachedFrames(group) ==
  [p \in 1..(1 + kMaxInlineLocationInfoPerFrame) |->
     IF p <= Len(group) THEN group[p] ELSE ClearFrame]

\* The position of key k in cache c, 0 when absent.
CacheIndex(c, k) ==
  IF \E p \in 1..Len(c) : c[p].key = k
    THEN CHOOSE p \in 1..Len(c) : c[p].key = k ELSE 0

\* find(k) on a hit: the entry moves to the front of the eviction list.
CachePromote(c, k) ==
  << c[CacheIndex(c, k)] >> \o SelectSeq(c, LAMBDA e : e.key # k)

\* set(k, v): insert or overwrite at the front, evicting from the back.
\* origin is a ghost: the group as it stood in the caller's buffer.
CacheSet(c, k, v, origin, cap) ==
  LET all == << [key |-> k, val |-> v, origin |-> origin, old |-> FALSE] >>
               \o SelectSeq(c, LAMBDA e : e.key # k)
  IN  SubSeq(all, 1, Min(Len(all), cap))

\* Ghost: at the start of a call every entry is an earlier call's.
MarkOld(c) == [p \in 1..Len(c) |-> [c[p] EXCEPT !.old = TRUE]]

----------------------------------------------------------------------------
(* Symbolizer::Symbolizer (lines 87-95) and the state before any call. *)

\* No call of symbolize is running and none has been made.
SymIdle ==
  /\ symbolCache = << >>
  /\ addrs = << >>
  /\ frames = << >>
  /\ addrCount = 0
  /\ remaining = 0
  /\ lm = 1
  /\ i = 0
  /\ addr = 0
  /\ numInlined = 0
  /\ pc = "idle"
  /\ owner = << >>
  /\ inFrames = << >>
  /\ again = FALSE
  /\ exitPath = "none"
  /\ hi = 0
  /\ accessed = {}
  /\ served = << >>
  /\ nofit = {}
  /\ produced = << >>

\* A Symbolizer of either mode, with or without a symbol cache, in a process
\* whose linker interface may or may not be the supported one.
SymInit ==
  /\ mode \in ModeSet
  /\ symbolCacheSize \in {0, MaxSymbolCache}
  /\ rVersion \in {1, 2}
  /\ selfExe \in BOOLEAN
  /\ SymIdle

\* Whether this Symbolizer has a symbolCache_.
HasSymbolCache == symbolCacheSize > 0

frameCount == Len(frames)

----------------------------------------------------------------------------
(* Symbolizer::symbolize, lines 100-129: the count of the unfound frames,  *)
(* the early returns and the copy of the addresses.                        *)

\* A loop that clears the frame of every address, found or not.
ClearEvery(fr, n) ==
  [p \in 1..Len(fr) |-> IF p <= n THEN ClearFrame ELSE fr[p]]

\* The buffer after the loop of lines 103-109: unfound frames cleared.
ClearUnfound(fr, n) ==
  [p \in 1..Len(fr) |-> IF p <= n /\ ~fr[p].found THEN ClearFrame ELSE fr[p]]

\* The buffer after the loop of lines 127-129.
SetAddrs(fr, as) ==
  [p \in 1..Len(fr) |-> IF p <= Len(as) THEN [fr[p] EXCEPT !.addr = as[p]] ELSE fr[p]]

\* remaining after the loop of lines 103-109.
CountUnfound(fr, n) == Cardinality({p \in 1..n : ~fr[p].found})

\* A call symbolize(as, fr) in a process whose r_version is rv by now; fresh
\* says the caller passed a new buffer.
Enter(as, fr, rv, fresh) ==
  /\ addrs' = as
  /\ rVersion' = rv
  /\ addrCount' = Len(as)
  /\ remaining' = CountUnfound(fr, Len(as))
  /\ inFrames' = fr
  /\ again' = ~fresh
  /\ exitPath' = IF CountUnfound(fr, Len(as)) = 0 THEN "allfound"
                 ELSE IF rv # 1 THEN "version"
                 ELSE IF ~selfExe THEN "readlink" ELSE "loops"
  /\ owner' = [p \in 1..Len(fr) |-> IF p <= Len(as) THEN p ELSE 0]
  /\ hi' = Len(as)
  /\ accessed' = {}
  /\ served' = << >>
  /\ nofit' = {}
  /\ lm' = 1
  /\ i' = 0
  /\ addr' = 0
  /\ numInlined' = 0
  /\ IF CountUnfound(fr, Len(as)) = 0 \/ rv # 1 \/ ~selfExe
       THEN /\ frames' = ClearUnfound(fr, Len(as))
            /\ pc' = "done"
       ELSE /\ frames' = SetAddrs(ClearUnfound(fr, Len(as)), as)
            /\ pc' = "outer"
  /\ symbolCache' = MarkOld(symbolCache)
  /\ produced' = [a \in DOMAIN produced |-> [produced[a] EXCEPT !.old = TRUE]]
  /\ UNCHANGED << besidesSym, mode, symbolCacheSize, selfExe >>

\* The address sequences a caller passes.
AddrSeqs == UNION { [1..n -> AddrSet] : n \in 0..MaxAddrs }

\* r_version never goes back to 1 once the linker reports a newer interface.
NextVersions == IF rVersion = 1 THEN {1, 2} ELSE {rVersion}

\* symbolize on a new buffer of default frames.
CallFresh ==
  \E as \in AddrSeqs, slack \in 0..MaxSlack, rv \in NextVersions :
    /\ pc = "idle"
    /\ Enter(as, [p \in 1..(Len(as) + slack) |-> ClearFrame], rv, TRUE)

\* symbolize again with the same addresses on the buffer the last call left.
CallAgain ==
  \E rv \in NextVersions :
    /\ pc = "done"
    /\ Enter(addrs, frames, rv, FALSE)

\* The caller is done with the buffer of the last call.
Release ==
  /\ pc = "done"
  /\ pc' = "idle"
  /\ addrs' = << >>
  /\ frames' = << >>
  /\ addrCount' = 0
  /\ remaining' = 0
  /\ lm' = 1
  /\ i' = 0
  /\ addr' = 0
  /\ numInlined' = 0
  /\ owner' = << >>
  /\ inFrames' = << >>
  /\ again' = FALSE
  /\ exitPath' = "none"
  /\ hi' = 0
  /\ accessed' = {}
  /\ served' = << >>
  /\ nofit' = {}
  /\ symbolCache' = MarkOld(symbolCache)
  /\ produced' = [a \in DOMAIN produced |-> [produced[a] EXCEPT !.old = TRUE]]
  /\ UNCHANGED << besidesSym, mode, symbolCacheSize, rVersion, selfExe >>

----------------------------------------------------------------------------
(* The outer loop over the link map (lines 140-152). *)

OuterExit ==
  /\ pc = "outer"
  /\ lm > Len(LinkMap) \/ remaining = 0
  /\ pc' = "done"
  /\ UNCHANGED << besidesSym, mode, symbolCacheSize, symbolCache, rVersion, selfExe, addrs, frames,
                  addrCount, remaining, lm, i, addr, numInlined, owner,
                  inFrames, again, exitPath, hi, accessed, served, nofit, produced >>

\* cache_->getFile(objPath) returns no file: continue.
OuterSkipObject ==
  /\ pc = "outer"
  /\ lm <= Len(LinkMap) /\ remaining # 0
  /\ ~LinkMap[lm].openable
  /\ lm' = lm + 1
  /\ accessed' = accessed \cup {"getFile"}
  /\ UNCHANGED << besidesSym, mode, symbolCacheSize, symbolCache, rVersion, selfExe, addrs, frames,
                  addrCount, remaining, i, addr, numInlined, pc, owner,
                  inFrames, again, exitPath, hi, served, nofit, produced >>

OuterEnter ==
  /\ pc = "outer"
  /\ lm <= Len(LinkMap) /\ remaining # 0
  /\ LinkMap[lm].openable
  /\ i' = 0
  /\ pc' = "inner"
  /\ accessed' = accessed \cup {"getFile"}
  /\ UNCHANGED << besidesSym, mode, symbolCacheSize, symbolCache, rVersion, selfExe, addrs, frames,
                  addrCount, remaining, lm, addr, numInlined, owner,
                  inFrames, again, exitPath, hi, served, nofit, produced >>

----------------------------------------------------------------------------
(* The inner loop over the addresses (lines 154-231). *)

\* The loop condition fails: on to the next link map entry.
InnerExit ==
  /\ pc = "inner"
  /\ ~(i < addrCount /\ remaining # 0)
  /\ lm' = lm + 1
  /\ pc' = "outer"
  /\ UNCHANGED << besidesSym, mode, symbolCacheSize, symbolCache, rVersion, selfExe, addrs, frames,
                  addrCount, remaining, i, addr, numInlined, owner,
                  inFrames, again, exitPath, hi, accessed, served, nofit, produced >>

\* Lines 155-158: a found frame is skipped.
InnerSkipFound ==
  /\ pc = "inner"
  /\ i < addrCount /\ remaining # 0
  /\ Get(frames, i, ClearFrame).found
  /\ i' = i + 1
  /\ hi' = i + 1
  /\ UNCHANGED << besidesSym, mode, symbolCacheSize, symbolCache, rVersion, selfExe, addrs, frames,
                  addrCount, remaining, lm, addr, numInlined, pc, owner,
                  inFrames, again, exitPath, accessed, served, nofit, produced >>

\* A replay that copies the n inline frames of the cached array but not the
\* frame itself.
ReplayInlineOnly(fr, val, at, count, n) ==
  CopyTo(MoveBackward(fr, at + 1, count, count + n, ClearFrame),
         SubSeq(val, 1, n), at)

\* The frames after the replay of lines 172-182 of a cached array val with
\* n inline frames at index at.
Replay(fr, val, at, count, n) ==
  CopyTo(MoveBackward(fr, at + 1, count, count + n, ClearFrame),
         SubSeq(val, 1, n + 1), at)

\* The owners after that replay: the frame itself now sits after its n
\* inline frames.
ReplayOwner(ow, at, count, n) ==
  CopyTo(MoveBackward(ow, at + 1, count, count + n, 0),
         [p \in 1..(n + 1) |-> IF p = n + 1 THEN Get(ow, at, 0) ELSE 0], at)

\* A replay that does not look at the capacity.
FitsAlways(n, total, count) == TRUE

\* Whether n cached inline frames fit behind addrCount (line 172).
Fits(n, total, count) == n <= total - count

\* A lookup that counts as a hit only when the cached group fits.
CacheHitThatFits ==
  /\ HasSymbolCache
  /\ CacheIndex(symbolCache, Get(frames, i, ClearFrame).addr) # 0
  /\ Fits(countFrames(symbolCache[CacheIndex(symbolCache,
                                             Get(frames, i, ClearFrame).addr)].val) - 1,
          frameCount, addrCount)

\* Lines 161-167: there is a symbol cache and find(addr) is not end().
CacheHit ==
  /\ HasSymbolCache
  /\ CacheIndex(symbolCache, Get(frames, i, ClearFrame).addr) # 0

\* Lines 160-188 with a symbol cache that holds the address: under the write
\* lock, find promotes the entry; it is replayed if it fits; either way the
\* loop continues with the next index.
InnerCacheHit ==
  /\ pc = "inner"
  /\ i < addrCount /\ remaining # 0
  /\ ~Get(frames, i, ClearFrame).found
  /\ CacheHit
  /\ LET key == Get(frames, i, ClearFrame).addr
         entry == symbolCache[CacheIndex(symbolCache, key)]
         numCachedFrames == countFrames(entry.val)
         numInlineFrames == numCachedFrames - 1
     IN  /\ addr' = key
         /\ symbolCache' = CachePromote(symbolCache, key)
         /\ accessed' = accessed \cup {"symbolCache"}
         /\ IF Fits(numInlineFrames, frameCount, addrCount)
              THEN /\ frames' = Replay(frames, entry.val, i, addrCount, numInlineFrames)
                   /\ owner' = ReplayOwner(owner, i, addrCount, numInlineFrames)
                   /\ i' = i + numInlineFrames + 1
                   /\ addrCount' = addrCount + numInlineFrames
                   /\ hi' = addrCount + numInlineFrames
                   /\ served' = IF entry.old
                                  THEN (Get(owner, i, 0) :> entry.origin) @@ served
                                  ELSE served
                   /\ nofit' = nofit
              ELSE /\ i' = i + 1
                   /\ hi' = i + 1
                   /\ nofit' = nofit \cup {Get(owner, i, 0)}
                   /\ UNCHANGED << frames, owner, addrCount, served >>
  /\ UNCHANGED << besidesSym, mode, symbolCacheSize, rVersion, selfExe, addrs, remaining, lm,
                  numInlined, pc, inFrames, again, exitPath, produced >>

\* Lines 160-188 without a cached entry (or without a cache): on to the
\* resolution of the address.
InnerCacheMiss ==
  /\ pc = "inner"
  /\ i < addrCount /\ remaining # 0
  /\ ~Get(frames, i, ClearFrame).found
  /\ ~CacheHit
  /\ addr' = Get(frames, i, ClearFrame).addr
  /\ accessed' = IF HasSymbolCache THEN accessed \cup {"symbolCache"} ELSE accessed
  /\ pc' = "resolve"
  /\ hi' = i + 1
  /\ UNCHANGED << besidesSym, mode, symbolCacheSize, symbolCache, rVersion, selfExe, addrs, frames,
                  addrCount, remaining, lm, i, numInlined, owner, inFrames, again, exitPath,
                  served, nofit, produced >>

\* adjusted (line 192).
Adjusted(a, o) == a - LinkMap[o].l_addr

\* elfFile->getSectionContainingAddress(adjusted)
InSection(a, o) == Adjusted(a, o) \in LinkMap[o].sections

\* Line 194 fails: the address is not in this object.
ResolveNotHere ==
  /\ pc = "resolve"
  /\ ~InSection(addr, lm)
  /\ i' = i + 1
  /\ pc' = "inner"
  /\ accessed' = accessed \cup {"debugInfo"}
  /\ UNCHANGED << besidesSym, mode, symbolCacheSize, symbolCache, rVersion, selfExe, addrs, frames,
                  addrCount, remaining, lm, addr, numInlined, owner,
                  inFrames, again, exitPath, hi, served, nofit, produced >>

\* maxInline (lines 197-198).
MaxInline(total, count) == Min(kMaxInlineLocationInfoPerFrame, total - count)

\* The buffer after setSymbolizedFrame(frame, elfFile, adjusted, mode_,
\* inlineFrameRange) with the inline range [count, count + n).
Resolved(fr, at, o, a, md, count, n) ==
  LET inl == extraInlineFrames(o, a, md, n)
  IN  [p \in 1..Len(fr) |->
         IF p - 1 = at THEN setSymbolizedFrame(o, a, Len(inl))
         ELSE IF p - 1 >= count /\ p - 1 < count + Len(inl) THEN inl[p - count]
         ELSE fr[p]]

\* Lines 195-213: resolution into the trailing scratch frames, which are
\* then rotated in front of the frame.
ResolveInline ==
  /\ pc = "resolve"
  /\ InSection(addr, lm)
  /\ mode = "FULL_WITH_INLINE" /\ frameCount > addrCount
  /\ LET maxInline == MaxInline(frameCount, addrCount)
         filled == Resolved(frames, i, lm, Adjusted(addr, lm), mode, addrCount, maxInline)
         n == countFrames(Range(filled, addrCount, addrCount + maxInline))
     IN  /\ frames' = Rotate(filled, i, addrCount, addrCount + n, ClearFrame)
         /\ owner' = Rotate(owner, i, addrCount, addrCount + n, 0)
         /\ numInlined' = n
         /\ addrCount' = addrCount + n
         /\ hi' = addrCount + maxInline
  /\ remaining' = remaining - 1
  /\ pc' = "populate"
  /\ accessed' = accessed \cup {"debugInfo"}
  /\ UNCHANGED << besidesSym, mode, symbolCacheSize, symbolCache, rVersion, selfExe, addrs, lm, i,
                  addr, inFrames, again, exitPath, served, nofit, produced >>

\* Line 215: resolution into the frame alone.
ResolvePlain ==
  /\ pc = "resolve"
  /\ InSection(addr, lm)
  /\ ~(mode = "FULL_WITH_INLINE" /\ frameCount > addrCount)
  /\ frames' = Resolved(frames, i, lm, Adjusted(addr, lm), mode, addrCount, 0)
  /\ numInlined' = 0
  /\ remaining' = remaining - 1
  /\ pc' = "populate"
  /\ hi' = i + 1
  /\ accessed' = accessed \cup {"debugInfo"}
  /\ UNCHANGED << besidesSym, mode, symbolCacheSize, symbolCache, rVersion, selfExe, addrs,
                  addrCount, lm, i, addr, owner, inFrames, again, exitPath, served, nofit, produced >>

\* How many frames line 224 copies into the cached array.
CopyCount(n) == Min(n + 1, 1 + kMaxInlineLocationInfoPerFrame)

\* Lines 218-229: the group is stored in the symbol cache under the write
\* lock, and the index moves past the inline frames.
Populate ==
  /\ pc = "populate"
  /\ IF HasSymbolCache
       THEN /\ symbolCache' =
                 CacheSet(symbolCache, addr,
                          CachedFrames(Range(frames, i, i + CopyCount(numInlined))),
                          Range(frames, i, i + numInlined + 1),
                          symbolCacheSize)
            /\ hi' = i + CopyCount(numInlined)
            /\ accessed' = accessed \cup {"symbolCache"}
            /\ produced' =
                 IF addr \in DOMAIN produced THEN produced
                 ELSE (addr :> [group |-> Range(frames, i, i + numInlined + 1),
                                old |-> FALSE]) @@ produced
       ELSE UNCHANGED << symbolCache, hi, accessed, produced >>
  /\ i' = i + numInlined + 1
  /\ numInlined' = 0
  /\ pc' = "inner"
  /\ UNCHANGED << besidesSym, mode, symbolCacheSize, rVersion, selfExe, addrs, frames, addrCount,
                  remaining, lm, addr, owner, inFrames, again, exitPath, served, nofit >>

----------------------------------------------------------------------------
(* AddressFormatter (lines 242-262).                                       *)

\* sizeof(uintptr_t) in bytes (8 on the 64-bit targets), scaled down.
sizeofUintptr == 1

\* The hex digits of a uintptr_t: 2 * sizeof(uintptr_t).
AddressDigits == 2 * sizeofUintptr

\* One past the largest uintptr_t.
AddressLimit == 16 ^ AddressDigits

kHexChars == << "0", "1", "2", "3", "4", "5", "6", "7",
                "8", "9", "a", "b", "c", "d", "e", "f" >>

\* The characters of bufTemplate before its digits.
TemplatePrefix == << " ", " ", " ", " ", "@", " " >>

\* The zeros of bufTemplate: as many as the widest uintptr_t has hex digits
\* (the literal 16 of line 253).
TemplateDigits == AddressDigits

\* AddressFormatter::bufTemplate with its terminator (the empty string stands
\* for the terminating NUL).
bufTemplate == TemplatePrefix \o [d \in 1..TemplateDigits |-> "0"] \o << "" >>

\* end (line 253), as an index into buf_ (0-based).
End(buf) == Len(buf) - 1 - (TemplateDigits - 2 * sizeofUintptr)

\* The loop of lines 256-259: the hex digits of address, lowest first, are
\* written from index p down while address is not 0.
RECURSIVE WriteHex(_, _, _)
WriteHex(buf, p, address) ==
  IF address = 0 \/ p < 0 THEN buf
  ELSE WriteHex([buf EXCEPT ![p + 1] = kHexChars[(address % 16) + 1]],
                p - 1, address \div 16)

\* buf_ after format(address) on a formatter whose buf_ is buf.
format(buf, address) ==
  WriteHex([buf EXCEPT ![End(buf) + 1] = ""], End(buf) - 1, address)

\* The StringPiece(buf_, end) that format returns.
Piece(buf) == SubSeq(buf, 1, End(buf))

\* The characters of a piece as one string.
RECURSIVE Join(_)
Join(s) == IF s = << >> THEN "" ELSE Head(s) \o Join(Tail(s))

\* n times the character c.
RECURSIVE Repeat(_, _)
Repeat(c, n) == IF n = 0 THEN "" ELSE c \o Repeat(c, n - 1)

----------------------------------------------------------------------------
(* SymbolizePrinter::print(frame), color and printTerse (lines 264-372).   *)

\* The options of a SymbolizePrinter.
PrinterOptions == { "NO_FILE_AND_LINE", "TERSE", "COLOR", "COLOR_IF_TTY",
                    "NO_FRAME_ADDRESS", "TERSE_FILE_AND_LINE" }

\* The frames handed to print: found or not, with or without a name (plain,
\* mangled, or mangled beyond demangling), a file and line, a main file.
RenderFrames ==
  [ found : BOOLEAN, addr : {0, AddressLimit - 2}, name : {"", "main", "_Z3foov", "_Z"},
    hasFileAndLine : BOOLEAN, file : {"a.cpp"}, line : {42},
    hasMainFile : BOOLEAN, mainFile : {"a.cpp", "m.h"} ]

\* demangle(name, buf, size): the demangled name, the name itself when it
\* is not mangled, nothing when demangling fails.
Demangled(name) ==
  IF name = "_Z3foov" THEN "foo()" ELSE IF name = "_Z" THEN "" ELSE name

\* Lines 296-298 and 356-357: the demangled name, or the raw one.
ShownName(name) == IF Demangled(name) = "" THEN name ELSE Demangled(name)

\* A piece handed to doPrint, with what it is.
PieceOf(kind, text) == [kind |-> kind, text |-> text]

\* isColorfulTty (lines 407-415) for a sink that is (tty) or is not an
\* interactive terminal of a type other than "dumb".
isColorfulTty(opts, tty) ==
  ~("TERSE" \in opts \/ "COLOR_IF_TTY" \notin opts \/ ~tty)

\* SymbolizePrinter::color (lines 338-346).
color(opts, tty, c) ==
  IF "COLOR" \notin opts /\ ("COLOR_IF_TTY" \notin opts \/ ~tty) THEN << >>
  ELSE << PieceOf("color", c) >>

\* pad (lines 281-283).
pad == Repeat(" ", Len(TemplatePrefix) + 1 + 2 * sizeofUintptr)

\* buf of printTerse (line 361), with its terminator.
terseBuf == << "0", "x" >> \o [d \in 1..TemplateDigits |-> "0"] \o << "" >>

\* A printTerse that prints the name of any frame that has one.
printTerseAnyName(f) ==
  IF f.name # ""
    THEN << PieceOf("name", ShownName(f.name)) >>
    ELSE << PieceOf("address",
                    Join(SubSeq(WriteHex([terseBuf EXCEPT ![End(terseBuf) + 1] = ""],
                                         End(terseBuf) - 1, f.addr),
                                1, End(terseBuf)))) >>

\* SymbolizePrinter::printTerse (lines 353-372).
printTerse(f) ==
  IF f.found /\ f.name # ""
    THEN << PieceOf("name", ShownName(f.name)) >>
    ELSE << PieceOf("address",
                    Join(SubSeq(WriteHex([terseBuf EXCEPT ![End(terseBuf) + 1] = ""],
                                         End(terseBuf) - 1, f.addr),
                                1, End(terseBuf)))) >>

\* Lines 291-300: the name.
printName(opts, f) ==
  IF "TERSE_FILE_AND_LINE" \in opts THEN << >>
  ELSE IF f.name = "" THEN << PieceOf("unknown", " (unknown)") >>
  ELSE << PieceOf("text", " "), PieceOf("name", ShownName(f.name)) >>

\* Lines 302-335: the file and line, and the main file.
printFileAndLine(opts, tty, f) ==
  IF "NO_FILE_AND_LINE" \in opts THEN << >>
  ELSE color(opts, tty, "DEFAULT")
       \o (IF f.hasFileAndLine
             THEN (IF "TERSE_FILE_AND_LINE" \notin opts
                     THEN << PieceOf("text", "\n"), PieceOf("text", pad) >> ELSE << >>)
                  \o << PieceOf("file", f.file), PieceOf("text", ":"),
                        PieceOf("line", ToString(f.line)) >>
             ELSE IF "TERSE_FILE_AND_LINE" \in opts
                    THEN << PieceOf("unknown", "(unknown)") >> ELSE << >>)
       \o (IF /\ f.hasMainFile /\ "TERSE_FILE_AND_LINE" \notin opts
              /\ (~f.hasFileAndLine \/ f.file # f.mainFile)
             THEN << PieceOf("text", "\n"), PieceOf("text", pad), PieceOf("text", "-> "),
                     PieceOf("file", f.mainFile) >>
             ELSE << >>)

\* SymbolizePrinter::print(frame) (lines 264-336) of a printer with options
\* opts and isTty_ tty: the pieces handed to doPrint, in order.
print(opts, tty, f) ==
  IF "TERSE" \in opts THEN printTerse(f)
  ELSE (IF "NO_FRAME_ADDRESS" \notin opts /\ "TERSE_FILE_AND_LINE" \notin opts
          THEN color(opts, tty, "BLUE")
               \o << PieceOf("address", Join(Piece(format(bufTemplate, f.addr)))) >>
          ELSE << >>)
       \o color(opts, tty, "PURPLE")
       \o (IF ~f.found THEN << PieceOf("marker", " (not found)") >>
           ELSE printName(opts, f) \o printFileAndLine(opts, tty, f))
       \o color(opts, tty, "DEFAULT")

\* No print(frame) is running and no printer is set up.
RenderIdle ==
  /\ options_ = {}
  /\ isTty_ = FALSE
  /\ frame_ = [ClearFrame EXCEPT !.name = ""]
  /\ rendered = << >>
  /\ rpc = "none"

\* A printer with options opts on a sink that is or is not a terminal is
\* about to print frame f.
RenderSetUp(opts, tty, f) ==
  /\ options_ = opts
  /\ isTty_ = isColorfulTty(opts, tty)
  /\ frame_ = f
  /\ rendered = << >>
  /\ rpc = "ready"

\* print(frame).
Render ==
  /\ rpc = "ready"
  /\ rendered' = print(options_, isTty_, frame_)
  /\ rpc' = "rendered"
  /\ UNCHANGED << besidesRender, options_, isTty_, frame_ >>

\* The pieces are forgotten; the frame may be printed once more.
RenderReset ==
  /\ rpc = "rendered"
  /\ rendered' = << >>
  /\ rpc' = "ready"
  /\ UNCHANGED << besidesRender, options_, isTty_, frame_ >>

----------------------------------------------------------------------------
(* FDSymbolizePrinter (lines 427-455): the sink that writes to a file      *)
(* descriptor, through a buffer of fixed size when bufferSize is not 0.    *)
(* writeFull is taken to write every byte it is given.                     *)

\* The capacity of a small buffer.
SinkBufferSize == 2

\* The most bytes printed to one sink.
MaxPrinted == 5

\* A sink: cap is bufferSize (0: no buffer_), buf the bytes in buffer_, wr
\* the bytes written to fd_.
SinkOf(cap, buf, wr) == [cap |-> cap, buf |-> buf, wr |-> wr]

\* buffer_->tailroom()
tailroom(s) == s.cap - Len(s.buf)

\* A flush that writes the buffer and does not clear it.
flushKeeping(s) ==
  IF s.cap # 0 /\ s.buf # "" THEN [s EXCEPT !.wr = s.wr \o s.buf] ELSE s

\* FDSymbolizePrinter::flush (lines 450-455).
flush(s) ==
  IF s.cap # 0 /\ s.buf # "" THEN [s EXCEPT !.wr = s.wr \o s.buf, !.buf = ""] ELSE s

\* A doPrint that writes an oversized piece without flushing first.
doPrintUnflushed(s, sp) ==
  IF s.cap # 0
    THEN IF Len(sp) > tailroom(s)
           THEN [s EXCEPT !.wr = s.wr \o sp]
           ELSE [s EXCEPT !.buf = s.buf \o sp]
    ELSE [s EXCEPT !.wr = s.wr \o sp]

\* FDSymbolizePrinter::doPrint (lines 436-448).
doPrint(s, sp) ==
  IF s.cap # 0
    THEN IF Len(sp) > tailroom(s)
           THEN [flush(s) EXCEPT !.wr = flush(s).wr \o sp]
           ELSE [s EXCEPT !.buf = s.buf \o sp]
    ELSE [s EXCEPT !.wr = s.wr \o sp]

\* doPrint of each piece of a sequence, in order: the sink after the first
\* piece, then the other pieces on that sink.
RECURSIVE doPrintAll(_, _)
doPrintAll(s, pieces) ==
  IF pieces = << >> THEN s
  ELSE CHOOSE last \in { doPrintAll(next, others) :
                           next \in { doPrint(s, Head(pieces)) },
                           others \in { Tail(pieces) } } : TRUE

\* The sink of the state.
Sink == SinkOf(bufferSize, buffer_, written)

\* The sink becomes s.
SetSink(s) ==
  /\ bufferSize' = s.cap
  /\ buffer_' = s.buf
  /\ written' = s.wr

\* A sink nothing has been printed to, of a printer not yet constructed.
SinkIdle ==
  /\ bufferSize = 0
  /\ buffer_ = ""
  /\ written = ""
  /\ printed = ""
  /\ sinkOp = "none"

\* The strings printed: of every size up to one more than the buffer holds,
\* told apart by their character.
SinkPieces == { Repeat(c, n) : c \in {"a", "b"}, n \in 0..(SinkBufferSize + 1) }

\* print(sp) on the sink.
SinkPrint ==
  \E sp \in SinkPieces :
    /\ Len(printed) + Len(sp) <= MaxPrinted
    /\ SetSink(doPrint(Sink, sp))
    /\ printed' = printed \o sp
    /\ sinkOp' = "print"
    /\ UNCHANGED besidesSink

\* flush() on the sink.
SinkFlush ==
  /\ SetSink(flush(Sink))
  /\ sinkOp' = "flush"
  /\ UNCHANGED << besidesSink, printed >>

----------------------------------------------------------------------------
(* SafeStackTracePrinter::printStackTrace (lines 501-519, with             *)
(* printSymbolizedStackTrace, lines 481-499) and                           *)
(* FastStackTracePrinter::printStackTrace (lines 537-561).                 *)

\* kMaxStackTraceDepth, the capacity of the FrameArray, scaled down.
kMaxStackTraceDepth == 3

\* The addresses getStackTraceSafe may capture: the smallest and the largest
\* uintptr_t and addresses with fewer hex digits than the width.
StackAddrs == { 0, 1, 16 ^ (AddressDigits - 1) + 2, AddressLimit - 1 }

\* The captured stacks.
StackSeqs == UNION { [1..n -> StackAddrs] : n \in 0..kMaxStackTraceDepth }

PrinterKinds == { "safe", "fast" }

\* No printStackTrace is running.
PrintIdle ==
  /\ printerKind = "safe"
  /\ symbolizeArg = FALSE
  /\ captureOk = FALSE
  /\ stack = << >>
  /\ out = << >>
  /\ buf_ = << >>
  /\ idx = 0
  /\ symbolizerCalls = 0
  /\ flushed = FALSE
  /\ ppc = "idle"

\* A printStackTrace that does not look at what getStackTraceSafe returned.
OutcomeIgnoringCapture(ok, sym) == IF sym THEN "symbolized" ELSE "addresses"

\* The branch printStackTrace takes (lines 507-511 and 544-553).
Outcome(ok, sym) ==
  IF ~ok THEN "error" ELSE IF sym THEN "symbolized" ELSE "addresses"

\* The buffer size of SafeStackTracePrinter's sink (line 474).
SafeBufferSize == 65536

\* The buffer sizes of the sink of a printer: the safe printer's own
\* FDSymbolizePrinter, or the FDSymbolizePrinter the fast printer was given,
\* with a small buffer or with none.
PrinterBufferSizes(pr) ==
  IF pr = "safe" THEN {SafeBufferSize} ELSE {0, SinkBufferSize}

\* print of each of the pieces, in order, through the printer's sink.
Emit(pieces) ==
  \E ps \in { pieces } :
    /\ out' = out \o ps
    /\ SetSink(doPrintAll(Sink, ps))
    /\ printed' = printed \o Join(ps)
    /\ sinkOp' = "print"

\* Lines 501-507 and 537-544: the call, on a printer whose sink holds
\* nothing, and its getStackTraceSafe, which fails or captures a stack; what
\* a failed capture leaves in the FrameArray is not determined here.
PrintStackTrace ==
  \E pr \in PrinterKinds, sym \in BOOLEAN, ok \in BOOLEAN, st \in StackSeqs,
     size \in {0, SinkBufferSize, SafeBufferSize} :
    /\ ppc = "idle"
    /\ size \in PrinterBufferSizes(pr)
    /\ SetSink(SinkOf(size, "", ""))
    /\ printed' = ""
    /\ sinkOp' = "none"
    /\ printerKind' = pr
    /\ symbolizeArg' = sym
    /\ captureOk' = ok
    /\ stack' = st
    /\ out' = << >>
    /\ idx' = 0
    /\ symbolizerCalls' = 0
    /\ flushed' = FALSE
    /\ ppc' = "captured"
    /\ UNCHANGED << besidesPrint, buf_ >>

\* Lines 508 and 545.
PrintError ==
  /\ ppc = "captured"
  /\ Outcome(captureOk, symbolizeArg) = "error"
  /\ Emit(<< "(error retrieving stack trace)\n" >>)
  /\ ppc' = "exit"
  /\ UNCHANGED << besidesPrint, printerKind, symbolizeArg, captureOk, stack, buf_, idx,
                  symbolizerCalls, flushed >>

\* What symbolize in mode FULL may leave in the frame of address a: the
\* frame unfound with the address, found without a definition, or found.
SymbolizedAs(a) ==
  { [found |-> FALSE, addr |-> a, name |-> ""],
    [found |-> TRUE, addr |-> 0, name |-> ""],
    [found |-> TRUE, addr |-> a, name |-> "main"] }

\* SymbolizePrinter::println(frame) with no option that changes the text,
\* on a sink that is no terminal, for a frame without file and line (lines
\* 264-299 and 348-351): the address from a formatter
\* of its own, then the name or its stand-in, then the end of the line.
PrintFrame(fr) ==
  << Join(Piece(format(bufTemplate, fr.addr))),
     IF ~fr.found THEN " (not found)"
     ELSE IF fr.name = "" THEN " (unknown)" ELSE " " \o fr.name,
     "\n" >>

\* println(addresses, skip) (lines 498 and 552, printing as lines 374-380
\* do): the frames from index skip on.
RECURSIVE PrintFrames(_, _)
PrintFrames(frs, skip) ==
  IF skip >= Len(frs) THEN << >>
  ELSE PrintFrame(frs[skip + 1]) \o PrintFrames(frs, skip + 1)

\* What symbolize may leave in the frames of the captured stack st.
RECURSIVE SymbolizedStacks(_)
SymbolizedStacks(st) ==
  IF st = << >> THEN { << >> }
  ELSE { << f >> \o rest : f \in SymbolizedAs(Head(st)), rest \in SymbolizedStacks(Tail(st)) }

\* SafeStackTracePrinter::printSymbolizedStackTrace (lines 482-499; lines
\* 547-552 do the same): symbolize, then println of the frames past the top
\* two.
SymbolizeAndPrint ==
  /\ \E frs \in SymbolizedStacks(stack) : Emit(PrintFrames(frs, 2))
  /\ symbolizerCalls' = symbolizerCalls + 1

\* Lines 509-510 and 546-552: the symbolizer is invoked and the frames past
\* the top two are printed.
PrintSymbolized ==
  /\ ppc = "captured"
  /\ Outcome(captureOk, symbolizeArg) = "symbolized"
  /\ SymbolizeAndPrint
  /\ ppc' = "exit"
  /\ UNCHANGED << besidesPrint, printerKind, symbolizeArg, captureOk, stack, buf_, idx, flushed >>

\* Lines 512-513 and 554-557: the notice, and the one formatter of the loop.
PrintSafeMode ==
  /\ ppc = "captured"
  /\ Outcome(captureOk, symbolizeArg) = "addresses"
  /\ Emit(<< "(safe mode, symbolizer not available)\n" >>)
  /\ buf_' = bufTemplate
  /\ idx' = 0
  /\ ppc' = "loop"
  /\ UNCHANGED << besidesPrint, printerKind, symbolizeArg, captureOk, stack,
                  symbolizerCalls, flushed >>

\* Lines 514-517 and 558-561: one address is formatted and printed.
PrintAddress ==
  /\ ppc = "loop"
  /\ idx < Len(stack)
  /\ buf_' = format(buf_, stack[idx + 1])
  /\ Emit(<< Join(Piece(format(buf_, stack[idx + 1]))), "\n" >>)
  /\ idx' = idx + 1
  /\ UNCHANGED << besidesPrint, printerKind, symbolizeArg, captureOk, stack,
                  symbolizerCalls, flushed, ppc >>

\* The loop of lines 514 / 558 ends.
PrintLoopExit ==
  /\ ppc = "loop"
  /\ idx >= Len(stack)
  /\ ppc' = "exit"
  /\ UNCHANGED << besidesPrint, sinkVars, printerKind, symbolizeArg, captureOk, stack, out,
                  buf_, idx, symbolizerCalls, flushed >>

\* SCOPE_EXIT (lines 502-504 with 477-480, and 538-540): the sink is
\* flushed, and the call returns.
PrintFlush ==
  /\ ppc = "exit"
  /\ SetSink(flush(Sink))
  /\ sinkOp' = "flush"
  /\ flushed' = TRUE
  /\ ppc' = "returned"
  /\ UNCHANGED << besidesPrint, printed, printerKind, symbolizeArg, captureOk, stack, out,
                  buf_, idx, symbolizerCalls >>

\* The caller goes on; the printer is ready for its next call.
PrintDone ==
  /\ ppc = "returned"
  /\ printerKind' = "safe"
  /\ symbolizeArg' = FALSE
  /\ captureOk' = FALSE
  /\ stack' = << >>
  /\ out' = << >>
  /\ buf_' = << >>
  /\ idx' = 0
  /\ symbolizerCalls' = 0
  /\ flushed' = FALSE
  /\ ppc' = "idle"
  /\ SetSink(SinkOf(0, "", ""))
  /\ printed' = ""
  /\ sinkOp' = "none"
  /\ UNCHANGED besidesPrint

----------------------------------------------------------------------------
(* UnsafeSelfAllocateStackTracePrinter::printSymbolizedStackTrace (lines   *)
(* 621-655) with allocateStack (lines 580-617): the symbolized trace is    *)
(* printed from a context that runs on an mmap-allocated stack.            *)

\* kMmapStackSize (line 570).
kMmapStackSize == 1048576

\* The values of pageSizeUnchecked_: what sysconf may have returned (an
\* error, nothing, a page size), and a page as large as half the stack.
PageSizes == { -1, 0, 4096, kMmapStackSize \div 2 }

\* An upperBound that counts pages and is no offset.
upperBoundInPages(pageSize) == (kMmapStackSize - 1) \div pageSize

\* upperBound (line 603).
upperBound(pageSize) == ((kMmapStackSize - 1) \div pageSize) * pageSize

\* What mmap may return (lines 582-588): MAP_FAILED, or the new region.
MmapResults == { "MAP_FAILED", "stack" }

\* An mprotect that takes any pointer.
mprotectAnyPointer(pointer, granted) == granted

\* Whether mprotect(pointer + offset, ...) returns 0 (lines 604, 607): not
\* for MAP_FAILED, which is no multiple of the page size (EINVAL), and
\* otherwise as the kernel grants it.
mprotect(pointer, granted) == pointer = "stack" /\ granted

\* A deleter that leaves the region mapped.
munmapNothing(pointer, reg) == reg

\* The region after the deleter of the MmapPtr has run on pointer (lines
\* 589-593): munmap of the region, or a failing munmap of what is none.
munmap(pointer, reg) == IF pointer = "stack" THEN "unmapped" ELSE reg

\* No printSymbolizedStackTrace is running.
AltIdle ==
  /\ pageSizeUnchecked_ = 0
  /\ ptr = "NULL"
  /\ region = "none"
  /\ guards = {}
  /\ ucStack = [sp |-> 0, size |-> 0]
  /\ context = "cur"
  /\ addresses_ = << >>
  /\ passed = {}
  /\ apc = "idle"

\* printSymbolizedStackTrace is called on a printer whose addresses_ hold
\* a captured stack and whose sink holds nothing.
AltCall ==
  \E st \in StackSeqs :
    /\ apc = "idle"
    /\ stack' = st
    /\ out' = << >>
    /\ symbolizerCalls' = 0
    /\ SetSink(SinkOf(SafeBufferSize, "", ""))
    /\ printed' = ""
    /\ sinkOp' = "none"
    /\ apc' = "entered"
    /\ UNCHANGED << besidesAlt, addresses_, pageSizeUnchecked_, ptr, region, guards, ucStack, context,
                    passed >>

\* The call returns to its caller from position at, the MmapPtr (if there
\* is one by then) going out of scope.
AltReturn(pointer) ==
  /\ region' = munmap(pointer, region)
  /\ apc' = "returned"

\* Lines 622-624: the page size is not positive.
AltNoPageSize ==
  /\ apc = "entered"
  /\ pageSizeUnchecked_ <= 0
  /\ AltReturn(ptr)
  /\ UNCHANGED << besidesAlt, addresses_, stack, out, symbolizerCalls, sinkVars, pageSizeUnchecked_, ptr,
                  guards, ucStack, context, passed >>

\* Lines 626-634: getcontext(&alt), which may fail.
AltGetContext ==
  \E ok \in BOOLEAN :
    /\ apc = "entered"
    /\ pageSizeUnchecked_ > 0
    /\ IF ok
         THEN /\ passed' = passed \cup {"getcontext"}
              /\ apc' = "mmap"
              /\ UNCHANGED region
         ELSE /\ AltReturn(ptr)
              /\ UNCHANGED passed
    /\ UNCHANGED << besidesAlt, addresses_, stack, out, symbolizerCalls, sinkVars, pageSizeUnchecked_, ptr,
                    guards, ucStack, context >>

\* Lines 581-602: mmap, the test of the pointer against null and the test of
\* the page size against the size of the stack.
AltMmap ==
  \E result \in MmapResults :
    /\ apc = "mmap"
    /\ ptr' = result
    /\ passed' = IF result = "stack" THEN passed \cup {"mmap"} ELSE passed
    /\ IF result = "NULL"
         THEN /\ region' = region
              /\ apc' = "returned"
         ELSE IF pageSizeUnchecked_ * 2 >= kMmapStackSize
           THEN AltReturn(result)
           ELSE /\ region' = IF result = "stack" THEN "mapped" ELSE region
                /\ apc' = "mprotect"
    /\ UNCHANGED << besidesAlt, addresses_, stack, out, symbolizerCalls, sinkVars, pageSizeUnchecked_,
                    guards, ucStack, context >>

\* Lines 603-617: the two guard pages and the stack of the context between
\* them; allocateStack returns null as soon as an mprotect fails, and then
\* so does the call (lines 637-639).
AltMprotect ==
  \E low \in BOOLEAN, high \in BOOLEAN :
    /\ apc = "mprotect"
    /\ IF ~mprotect(ptr, low)
         THEN /\ AltReturn(ptr)
              /\ UNCHANGED << guards, ucStack, passed >>
         ELSE IF ~mprotect(ptr, high)
           THEN /\ AltReturn(ptr)
                /\ guards' = { [from |-> 0, to |-> pageSizeUnchecked_] }
                /\ passed' = passed \cup {"mprotect low"}
                /\ UNCHANGED ucStack
           ELSE /\ guards' = { [from |-> 0, to |-> pageSizeUnchecked_],
                               [from |-> upperBound(pageSizeUnchecked_),
                                to |-> kMmapStackSize] }
                /\ ucStack' = [sp |-> pageSizeUnchecked_,
                               size |-> upperBound(pageSizeUnchecked_) - pageSizeUnchecked_]
                /\ passed' = passed \cup {"mprotect low", "mprotect high"}
                /\ apc' = "swapcontext"
                /\ UNCHANGED region
    /\ UNCHANGED << besidesAlt, addresses_, stack, out, symbolizerCalls, sinkVars, pageSizeUnchecked_, ptr,
                    context >>

\* Lines 641-654: makecontext and swapcontext(&cur, &alt), which fails or
\* starts contextStart on the new stack.
AltSwapContext ==
  \E ok \in BOOLEAN :
    /\ apc = "swapcontext"
    /\ IF ok
         THEN /\ context' = "alt"
              /\ passed' = passed \cup {"swapcontext"}
              /\ apc' = "contextStart"
              /\ UNCHANGED region
         ELSE /\ AltReturn(ptr)
              /\ UNCHANGED << context, passed >>
    /\ UNCHANGED << besidesAlt, addresses_, stack, out, symbolizerCalls, sinkVars, pageSizeUnchecked_, ptr,
                    guards, ucStack >>

\* Lines 641-643: contextStart runs
\* SafeStackTracePrinter::printSymbolizedStackTrace in the new context, which
\* first has a Symbolizer fill in the frames of addresses_ (lines 489-491).
AltContextStart ==
  /\ apc = "contextStart"
  /\ addresses_' \in SymbolizedStacks(stack)
  /\ symbolizerCalls' = symbolizerCalls + 1
  /\ apc' = "println"
  /\ UNCHANGED << besidesAlt, stack, out, sinkVars, pageSizeUnchecked_, ptr, region, guards,
                  ucStack, context, passed >>

\* Line 498: println of the frames but the top 2.
AltPrintln ==
  /\ apc = "println"
  /\ Emit(PrintFrames(addresses_, 2))
  /\ apc' = "contextEnd"
  /\ UNCHANGED << besidesAlt, addresses_, stack, symbolizerCalls, pageSizeUnchecked_, ptr,
                  region, guards, ucStack, context, passed >>

\* contextStart returns: uc_link (line 634) resumes cur, swapcontext returns
\* 0 and the call returns (line 655).
AltResume ==
  /\ apc = "contextEnd"
  /\ context' = "cur"
  /\ AltReturn(ptr)
  /\ UNCHANGED << besidesAlt, addresses_, stack, out, symbolizerCalls, sinkVars, pageSizeUnchecked_, ptr,
                  guards, ucStack, passed >>

\* The caller goes on; the printer is ready for its next call.
AltDone ==
  /\ apc = "returned"
  /\ stack' = << >>
  /\ out' = << >>
  /\ symbolizerCalls' = 0
  /\ SetSink(SinkOf(0, "", ""))
  /\ printed' = ""
  /\ sinkOp' = "none"
  /\ ptr' = "NULL"
  /\ region' = "none"
  /\ guards' = {}
  /\ ucStack' = [sp |-> 0, size |-> 0]
  /\ addresses_' = << >>
  /\ passed' = {}
  /\ apc' = "idle"
  /\ UNCHANGED << besidesAlt, pageSizeUnchecked_, context >>

----------------------------------------------------------------------------
(* Symbolizer::symbolize called by several threads on one Symbolizer with  *)
(* a symbol cache: for each thread, the part of the inner loop that works  *)
(* on one unfound frame in the pass of one object (lines 160-230), with    *)
(* the write lock of symbolCache_ (folly::Synchronized).                   *)

\* The most threads that call symbolize at once.
MaxThreads == 2

Threads == 1..MaxThreads

\* No thread is in symbolize.
ThreadsIdle ==
  /\ wlockHolder = 0
  /\ tpc = [t \in Threads |-> "idle"]
  /\ taddr = [t \in Threads |-> 0]
  /\ tlm = [t \in Threads |-> 0]
  /\ tcopy = [t \in Threads |-> << >>]

\* Lines 147-160: in the pass of an object whose file could be opened, the
\* thread comes to an unfound frame and reads its address.
ThreadFrame(t) ==
  \E a \in AddrSet, o \in { q \in 1..Len(LinkMap) : LinkMap[q].openable } :
    /\ tpc[t] = "idle"
    /\ taddr' = [taddr EXCEPT ![t] = a]
    /\ tlm' = [tlm EXCEPT ![t] = o]
    /\ tcopy' = [tcopy EXCEPT ![t] = << >>]
    /\ tpc' = [tpc EXCEPT ![t] = "wlock"]
    /\ UNCHANGED << besidesThreads, symbolCache, wlockHolder >>

\* Line 164: symbolCache_->wlock(), which waits until no thread holds the
\* lock.
ThreadLock(t) ==
  /\ tpc[t] = "wlock"
  /\ wlockHolder = 0
  /\ wlockHolder' = t
  /\ tpc' = [tpc EXCEPT ![t] = "find"]
  /\ UNCHANGED << besidesThreads, symbolCache, taddr, tlm, tcopy >>

\* A guard that lets go of the lock as soon as find has returned.
HolderAfterFindNone(t) == 0

\* The holder of the lock after find: lockedSymbolCache stays in scope to
\* the end of the block (line 188).
HolderAfterFind(t) == t

\* Lines 166-167: find(addr), which moves an entry it finds to the front.
ThreadFind(t) ==
  /\ tpc[t] = "find"
  /\ IF CacheIndex(symbolCache, taddr[t]) # 0
       THEN /\ symbolCache' = CachePromote(symbolCache, taddr[t])
            /\ tpc' = [tpc EXCEPT ![t] = "copy"]
       ELSE /\ tpc' = [tpc EXCEPT ![t] = "miss"]
            /\ UNCHANGED symbolCache
  /\ wlockHolder' = HolderAfterFind(t)
  /\ UNCHANGED << besidesThreads, taddr, tlm, tcopy >>

\* Lines 168-186: the frames of the entry are counted and, when they fit,
\* copied out; continue ends the scope of the guard, which unlocks. An
\* entry that is gone by now leaves nothing to copy.
ThreadCopy(t) ==
  \E fits \in BOOLEAN :
    /\ tpc[t] = "copy"
    /\ tcopy' = [tcopy EXCEPT ![t] =
                   IF ~fits \/ CacheIndex(symbolCache, taddr[t]) = 0 THEN << >>
                   ELSE symbolCache[CacheIndex(symbolCache, taddr[t])].val]
    /\ wlockHolder' = IF wlockHolder = t THEN 0 ELSE wlockHolder
    /\ tpc' = [tpc EXCEPT ![t] = "idle"]
    /\ UNCHANGED << besidesThreads, symbolCache, taddr, tlm >>

\* Line 188: no entry; the scope of the guard ends, which unlocks.
ThreadMiss(t) ==
  /\ tpc[t] = "miss"
  /\ wlockHolder' = IF wlockHolder = t THEN 0 ELSE wlockHolder
  /\ tpc' = [tpc EXCEPT ![t] = "resolve"]
  /\ UNCHANGED << besidesThreads, symbolCache, taddr, tlm, tcopy >>

\* Lines 192-217: getSectionContainingAddress and, for an address of this
\* object, setSymbolizedFrame.
ThreadResolve(t) ==
  /\ tpc[t] = "resolve"
  /\ tpc' = [tpc EXCEPT ![t] = IF InSection(taddr[t], tlm[t]) THEN "set" ELSE "idle"]
  /\ UNCHANGED << besidesThreads, symbolCache, wlockHolder, taddr, tlm, tcopy >>

\* Line 226: symbolCache_->wlock(), for the set that follows.
ThreadSetLock(t) ==
  /\ tpc[t] = "set"
  /\ wlockHolder = 0
  /\ wlockHolder' = t
  /\ tpc' = [tpc EXCEPT ![t] = "locked set"]
  /\ UNCHANGED << besidesThreads, symbolCache, taddr, tlm, tcopy >>

\* Line 226: set(addr, cacheFrames); the temporary guard unlocks at the end
\* of the statement.
ThreadSet(t) ==
  /\ tpc[t] = "locked set"
  /\ symbolCache' =
       CacheSet(symbolCache, taddr[t],
                CachedFrames(<< setSymbolizedFrame(tlm[t], Adjusted(taddr[t], tlm[t]), 0) >>),
                << setSymbolizedFrame(tlm[t], Adjusted(taddr[t], tlm[t]), 0) >>,
                symbolCacheSize)
  /\ wlockHolder' = 0
  /\ tpc' = [tpc EXCEPT ![t] = "idle"]
  /\ UNCHANGED << besidesThreads, taddr, tlm, tcopy >>

----------------------------------------------------------------------------
(* The specification of symbolize: any number of calls, one at a time. *)

Next ==
  \/ CallFresh
  \/ CallAgain
  \/ Release
  \/ OuterExit
  \/ OuterSkipObject
  \/ OuterEnter
  \/ InnerExit
  \/ InnerSkipFound
  \/ InnerCacheHit
  \/ InnerCacheMiss
  \/ ResolveNotHere
  \/ ResolveInline
  \/ ResolvePlain
  \/ Populate

\* A Symbolizer before its first call; no printer is at work.
Init == SymInit /\ PrintIdle /\ SinkIdle /\ RenderIdle /\ AltIdle /\ ThreadsIdle

Spec == Init /\ [][Next]_vars

----------------------------------------------------------------------------
(* The specification of printStackTrace: any number of calls, one at a     *)
(* time, with the Symbolizer the printers build (mode FULL).               *)

PrintInit ==
  /\ PrintIdle
  /\ SinkIdle
  /\ RenderIdle
  /\ AltIdle
  /\ ThreadsIdle
  /\ mode = "FULL"
  /\ symbolCacheSize = 0
  /\ rVersion = 1
  /\ selfExe = TRUE
  /\ SymIdle

PrintNext ==
  \/ PrintStackTrace
  \/ PrintError
  \/ PrintSymbolized
  \/ PrintSafeMode
  \/ PrintAddress
  \/ PrintLoopExit
  \/ PrintFlush
  \/ PrintDone

SpecPrint == PrintInit /\ [][PrintNext]_vars

----------------------------------------------------------------------------
(* The specification of the sink: an FDSymbolizePrinter with or without a  *)
(* buffer, and any sequence of print and flush calls on it.                *)

\* FDSymbolizePrinter::FDSymbolizePrinter (lines 427-430); no symbolize and
\* no printStackTrace runs.
SinkInit ==
  /\ bufferSize \in {0, SinkBufferSize}
  /\ buffer_ = ""
  /\ written = ""
  /\ printed = ""
  /\ sinkOp = "none"
  /\ RenderIdle
  /\ AltIdle
  /\ ThreadsIdle
  /\ PrintIdle
  /\ mode = "FULL"
  /\ symbolCacheSize = 0
  /\ rVersion = 1
  /\ selfExe = TRUE
  /\ SymIdle

SinkNext ==
  \/ SinkPrint
  \/ SinkFlush

SpecSink == SinkInit /\ [][SinkNext]_vars

----------------------------------------------------------------------------
(* The specification of print(frame): a printer with any options, on a     *)
(* terminal or not, prints any frame.                                      *)

RenderInit ==
  /\ \E opts \in SUBSET PrinterOptions, tty \in BOOLEAN, f \in RenderFrames :
       RenderSetUp(opts, tty, f)
  /\ SinkIdle
  /\ AltIdle
  /\ ThreadsIdle
  /\ PrintIdle
  /\ mode = "FULL"
  /\ symbolCacheSize = 0
  /\ rVersion = 1
  /\ selfExe = TRUE
  /\ SymIdle

RenderNext ==
  \/ Render
  \/ RenderReset

SpecRender == RenderInit /\ [][RenderNext]_vars

----------------------------------------------------------------------------
(* The specification of printSymbolizedStackTrace on the allocated stack:  *)
(* any number of calls, one at a time, on a printer of any page size.      *)

\* UnsafeSelfAllocateStackTracePrinter before a call.
AltInit ==
  /\ pageSizeUnchecked_ \in PageSizes
  /\ ptr = "NULL"
  /\ region = "none"
  /\ guards = {}
  /\ ucStack = [sp |-> 0, size |-> 0]
  /\ context = "cur"
  /\ addresses_ = << >>
  /\ passed = {}
  /\ apc = "idle"
  /\ PrintIdle
  /\ SinkIdle
  /\ RenderIdle
  /\ ThreadsIdle
  /\ mode = "FULL"
  /\ symbolCacheSize = 0
  /\ rVersion = 1
  /\ selfExe = TRUE
  /\ SymIdle

\* The steps of a call that is under way.
AltStep ==
  \/ AltNoPageSize
  \/ AltGetContext
  \/ AltMmap
  \/ AltMprotect
  \/ AltSwapContext
  \/ AltContextStart
  \/ AltPrintln
  \/ AltResume

AltNext ==
  \/ AltCall
  \/ AltStep
  \/ AltDone

SpecAlt == AltInit /\ [][AltNext]_vars

\* The same, with the thread that made the call running on: a call that is
\* under way takes its next step.
SpecAltLive == AltInit /\ [][AltNext]_vars /\ WF_vars(AltStep)

\* The largest page size is 2 ^ MaxPageShift.
MaxPageShift == 21

\* The page sizes allocateStack is called with (line 636): positive, and a
\* power of two as the page size of a system is; the largest are as large
\* as the stack, and larger.
AllocPageSizes == { 2 ^ shift : shift \in 0..MaxPageShift }

\* allocateStack is called (line 636): the page size is positive, getcontext
\* has succeeded, and the printer has its buffer and nothing printed.
AllocInit ==
  /\ pageSizeUnchecked_ \in AllocPageSizes
  /\ ptr = "NULL"
  /\ region = "none"
  /\ guards = {}
  /\ ucStack = [sp |-> 0, size |-> 0]
  /\ context = "cur"
  /\ addresses_ = << >>
  /\ passed = {"getcontext"}
  /\ apc = "mmap"
  /\ PrintIdle
  /\ bufferSize = SafeBufferSize
  /\ buffer_ = ""
  /\ written = ""
  /\ printed = ""
  /\ sinkOp = "none"
  /\ RenderIdle
  /\ ThreadsIdle
  /\ mode = "FULL"
  /\ symbolCacheSize = 0
  /\ rVersion = 1
  /\ selfExe = TRUE
  /\ SymIdle

\* allocateStack, from its call to its return.
AllocNext ==
  \/ AltMmap
  \/ AltMprotect

SpecAlloc == AllocInit /\ [][AllocNext]_vars

----------------------------------------------------------------------------
(* The specification of the threads: one Symbolizer with a symbol cache,   *)
(* and threads that symbolize with it at the same time.                    *)

ThreadsInit ==
  /\ ThreadsIdle
  /\ mode = "FULL"
  /\ symbolCacheSize = MaxSymbolCache
  /\ rVersion = 1
  /\ selfExe = TRUE
  /\ SymIdle
  /\ PrintIdle
  /\ SinkIdle
  /\ RenderIdle
  /\ AltIdle

ThreadsNext ==
  \E t \in Threads :
    \/ ThreadFrame(t)
    \/ ThreadLock(t)
    \/ ThreadFind(t)
    \/ ThreadCopy(t)
    \/ ThreadMiss(t)
    \/ ThreadResolve(t)
    \/ ThreadSetLock(t)
    \/ ThreadSet(t)

SpecThreads == ThreadsInit /\ [][ThreadsNext]_vars

----------------------------------------------------------------------------
(* What the claims about symbolize speak of. *)

\* symbolize has returned.
Returned == pc = "done"

\* The call ran its loops: it passed the tests of lines 111-124.
RanLoops == exitPath = "loops"

\* The slot (1-based) that holds the frame of input address j.
SlotOf(j) == CHOOSE p \in 1..Len(owner) : owner[p] = j

\* The frame of input address j.
FrameOf(j) == frames[SlotOf(j)]

\* The address lies, unrelocated, in a section of a loaded object whose file
\* the object cache can open.
Resolvable(a) ==
  \E o \in 1..Len(LinkMap) : LinkMap[o].openable /\ InSection(a, o)

\* The frame group of input address j: its inline frames, which sit between
\* the previous input's frame and its own, and then its own frame.
GroupOf(j) ==
  LET before == {p \in 1..(SlotOf(j) - 1) : owner[p] # 0}
      from == IF before = {} THEN 0 ELSE CHOOSE p \in before : \A q \in before : q <= p
  IN  Range(frames, from, SlotOf(j))

----------------------------------------------------------------------------
(* C1 *)

\* C1: in a process whose linker interface is supported and whose own path
\* is readable, after symbolize has returned from a call on a buffer of
\* unfound frames, the frame of each input address is found if and only if
\* the address, less the load bias of some loaded object whose file the
\* object cache could open, lies in a section of that object.
C1_FoundIffInSection ==
  (Returned /\ ~again /\ RanLoops) =>
    \A j \in 1..Len(addrs) : FrameOf(j).found <=> Resolvable(addrs[j])

----------------------------------------------------------------------------
(* C2 *)

\* C2: a second call with the same addresses on the buffer the first call
\* left (the process unchanged: both calls past the tests of lines 111-124)
\* leaves every field of every frame as the first call left it.
C2_SecondCallChangesNothing ==
  (Returned /\ again /\ exitPath \in {"loops", "allfound"}) => frames = inFrames

----------------------------------------------------------------------------
(* C3 *)

\* C3 as claimed: with the symbol cache enabled, an address that an earlier
\* call resolved gets, in a later call on a new buffer of any capacity, the
\* same frame group as in the earlier call, served from the cache or not
\* (the addresses a cache hit that did not fit left aside: C4 is about them).
C3_SameGroupAnyCapacity ==
  (Returned /\ ~again /\ RanLoops /\ HasSymbolCache) =>
    \A j \in (1..Len(addrs)) \ nofit :
      (addrs[j] \in DOMAIN produced /\ produced[addrs[j]].old)
        => GroupOf(j) = produced[addrs[j]].group

\* C3 as amended: when a later call is served from the symbol cache by an
\* entry an earlier call stored, and the cached group fits in the buffer,
\* the address gets the frame group the earlier call produced for it: the
\* same number of frames in the same order with the same content.
C3_ReplayedGroupIsTheStoredOne ==
  (Returned /\ ~again) =>
    \A j \in DOMAIN served : FrameOf(j).found /\ GroupOf(j) = served[j]

\* A call returned in which an earlier call's group with inline frames was
\* replayed for an address.
C3_Witness ==
  /\ Returned /\ ~again
  /\ \E j \in DOMAIN served : Len(served[j]) > 1

----------------------------------------------------------------------------
(* C4 *)

\* C4: an address whose cached group did not fit in the remaining capacity
\* is resolved all the same when it lies in a section of a loaded object.
C4_NoFitStillResolved ==
  Returned => \A j \in nofit : Resolvable(addrs[j]) => FrameOf(j).found

----------------------------------------------------------------------------
(* C5 *)

\* The layout after the frame at index i has been given the frame group
\* group with k inline frames: the group sits at [i, i + k], the address
\* count has grown by k, the frames before i are as they were and the frames
\* after i are k positions later.
Layout(k, group) ==
  /\ addrCount' = addrCount + k
  /\ Range(frames', i, i + k + 1) = group
  /\ \A p \in 0..(i - 1) : Get(frames', p, ClearFrame) = Get(frames, p, ClearFrame)
  /\ \A p \in (i + 1)..(addrCount - 1) :
       Get(frames', p + k, ClearFrame) = Get(frames, p, ClearFrame)

\* The inline frames the debug info service writes for the address being
\* resolved, in its order, into the scratch range the call offers.
ServiceInline ==
  extraInlineFrames(lm, Adjusted(addr, lm), mode, MaxInline(frameCount, addrCount))

\* The inner loop is at an unfound frame whose address the symbol cache
\* holds with a group that fits.
AtFittingHit ==
  /\ pc = "inner" /\ i < addrCount /\ remaining # 0
  /\ ~Get(frames, i, ClearFrame).found
  /\ HasSymbolCache
  /\ CacheIndex(symbolCache, Get(frames, i, ClearFrame).addr) # 0
  /\ Fits(Len(symbolCache[CacheIndex(symbolCache, Get(frames, i, ClearFrame).addr)].origin) - 1,
          frameCount, addrCount)

\* C5: in FULL_WITH_INLINE mode, a step that resolves the address at index i
\* with the k inline frames the debug info service wrote leaves those k
\* frames, in the service's order, and then the frame itself at [i, i + k],
\* grows the address count by k and moves every later frame k positions on,
\* unchanged; a step that replays a cached group leaves the same layout.
C5_InlineLayout ==
  [][ (mode = "FULL_WITH_INLINE") =>
        /\ (pc = "resolve" /\ pc' = "populate") =>
              Layout(Len(ServiceInline),
                     ServiceInline \o
                       << setSymbolizedFrame(lm, Adjusted(addr, lm), Len(ServiceInline)) >>)
        /\ (AtFittingHit /\ pc' = "inner") =>
              Layout(Len(symbolCache[CacheIndex(symbolCache, Get(frames, i, ClearFrame).addr)].origin) - 1,
                     symbolCache[CacheIndex(symbolCache, Get(frames, i, ClearFrame).addr)].origin)
    ]_symVars

----------------------------------------------------------------------------
(* C6 *)

\* C6: throughout a call (whose buffer has at least as many frames as there
\* are addresses) the address count is at most the frame capacity, and every
\* step touches only frame indices below the frame capacity.
C6_WithinCapacity ==
  /\ addrCount <= frameCount
  /\ hi <= frameCount
  /\ i <= addrCount

\* An inline expansion was cut to the trailing slots and filled the buffer.
C6_Witness ==
  /\ pc = "populate" /\ numInlined >= 1 /\ addrCount = frameCount
  /\ numInlined < InlineDepth(lm, Adjusted(addr, lm))

----------------------------------------------------------------------------
(* C8 *)

----------------------------------------------------------------------------
(* C9 *)

\* The unrelocated addresses of input address a in the loaded objects whose
\* section holds it.
Unrelocated(a) ==
  { Adjusted(a, o) : o \in { q \in 1..Len(LinkMap) : InSection(a, q) } }

\* C9: after symbolize has returned by any path, the frame of an input
\* address that was not resolved is unfound and carries that address, and
\* the frame of a resolved input address carries that address or that
\* address less the load bias of the object it lies in.
C9_FramesCarryTheirAddress ==
  Returned =>
    \A j \in 1..Len(addrs) :
      /\ ~FrameOf(j).found => FrameOf(j).addr = addrs[j]
      /\ FrameOf(j).found => FrameOf(j).addr \in {addrs[j]} \cup Unrelocated(addrs[j])

----------------------------------------------------------------------------
(* C7 *)

\* Whether c is one of the lowercase hex digits.
IsHexChar(c) == \E n \in 1..16 : kHexChars[n] = c

\* The value of a hex digit.
HexValue(c) == (CHOOSE n \in 1..16 : kHexChars[n] = c) - 1

\* The integer a string of hex digits reads as.
RECURSIVE ParseHex(_)
ParseHex(s) ==
  IF s = << >> THEN 0
  ELSE 16 * ParseHex(SubSeq(s, 1, Len(s) - 1)) + HexValue(s[Len(s)])

\* The digits of the piece the last format call returned.
FormattedDigits == SubSeq(Piece(buf_), Len(TemplatePrefix) + 1, Len(Piece(buf_)))

\* C7: the piece format returns for the address just printed, on a formatter
\* that may have served earlier format calls, has the fixed width, consists
\* of lowercase hex digits after the prefix, and reads back as that address.
C7_FormatRoundTrip ==
  (ppc = "loop" /\ idx >= 1) =>
    /\ Len(FormattedDigits) = AddressDigits
    /\ \A d \in 1..Len(FormattedDigits) : IsHexChar(FormattedDigits[d])
    /\ ParseHex(FormattedDigits) = stack[idx]

----------------------------------------------------------------------------
(* C10 *)

\* C10: when getStackTraceSafe has failed, printStackTrace of either printer,
\* with either value of symbolize, never invokes the symbolizer, never
\* enters the loop that prints addresses, and has printed nothing before
\* and exactly the error literal after its branch.
C10_CaptureFailurePrintsOnlyTheError ==
  (ppc # "idle" /\ ~captureOk) =>
    /\ symbolizerCalls = 0
    /\ ppc # "loop"
    /\ out = IF ppc = "captured" THEN << >>
             ELSE << "(error retrieving stack trace)\n" >>

\* The fast printer, asked to symbolize, has returned from a call whose
\* capture failed with addresses left in the FrameArray.
C10_Witness ==
  /\ ppc = "returned" /\ ~captureOk /\ flushed
  /\ printerKind = "fast" /\ symbolizeArg /\ Len(stack) > 0

----------------------------------------------------------------------------
(* C19 *)

\* symbolize is in its loops (lines 140-232).
InLoops == pc \in { "outer", "inner", "resolve", "populate" }

\* C19: throughout the loops, remaining equals the number of unfound frames
\* among frames[0 .. addrCount), so that the loops stop as soon as every
\* address is resolved, by direct resolution or by a cache hit.
C19_RemainingCountsUnfound ==
  InLoops => remaining = CountUnfound(frames, addrCount)

----------------------------------------------------------------------------
(* C15 *)

\* C15: with a symbol cache, the debug info service is asked about an
\* address (lines 190-217, in the pass of whichever loaded object) only
\* when the cache holds no entry for it: an address the cache holds is never
\* resolved through the service, whether its cached group fits or not.
C15_CachedAddressNotResolved ==
  (pc = "resolve" /\ HasSymbolCache) => CacheIndex(symbolCache, addr) = 0

\* A call returned in which an entry of an earlier call was replayed for one
\* address and the cached group of another address did not fit.
C15_Witness ==
  /\ Returned /\ ~again /\ RanLoops
  /\ DOMAIN served # {}
  /\ nofit # {}

----------------------------------------------------------------------------
(* C14 *)

\* The inner loop of lines 154-231 for object o from index at on, as it runs
\* when there is no symbol cache: what it leaves of the buffer, the address
\* count and remaining.
RECURSIVE InnerLoopNoCache(_, _, _, _, _)
InnerLoopNoCache(fr, count, rem, o, at) ==
  IF ~(at < count /\ rem # 0) THEN [fr |-> fr, count |-> count, rem |-> rem]
  ELSE IF Get(fr, at, ClearFrame).found \/ ~InSection(Get(fr, at, ClearFrame).addr, o)
    THEN InnerLoopNoCache(fr, count, rem, o, at + 1)
  ELSE IF mode = "FULL_WITH_INLINE" /\ Len(fr) > count
    THEN LET maxInline == MaxInline(Len(fr), count)
             filled == Resolved(fr, at, o, Adjusted(Get(fr, at, ClearFrame).addr, o),
                                mode, count, maxInline)
             n == countFrames(Range(filled, count, count + maxInline))
         IN  InnerLoopNoCache(Rotate(filled, at, count, count + n, ClearFrame),
                              count + n, rem - 1, o, at + n + 1)
  ELSE InnerLoopNoCache(Resolved(fr, at, o, Adjusted(Get(fr, at, ClearFrame).addr, o),
                                 mode, count, 0),
                        count, rem - 1, o, at + 1)

\* The outer loop of lines 140-152 from link map entry o on, without a
\* symbol cache: the buffer it leaves.
RECURSIVE OuterLoopNoCache(_, _, _, _)
OuterLoopNoCache(fr, count, rem, o) ==
  IF o > Len(LinkMap) \/ rem = 0 THEN fr
  ELSE IF ~LinkMap[o].openable THEN OuterLoopNoCache(fr, count, rem, o + 1)
  ELSE LET after == InnerLoopNoCache(fr, count, rem, o, 0)
       IN  OuterLoopNoCache(after.fr, after.count, after.rem, o + 1)

\* The buffer symbolize(as, fr) leaves when the Symbolizer has no symbol
\* cache.
SymbolizeNoCache(as, fr) ==
  IF CountUnfound(fr, Len(as)) = 0 \/ rVersion # 1 \/ ~selfExe
    THEN ClearUnfound(fr, Len(as))
    ELSE OuterLoopNoCache(SetAddrs(ClearUnfound(fr, Len(as)), as), Len(as),
                          CountUnfound(fr, Len(as)), 1)

\* The symbol cache was empty when the call started: no earlier call of this
\* Symbolizer stored an entry.
CacheEmptyAtCall == \A a \in DOMAIN produced : ~produced[a].old

----------------------------------------------------------------------------
(* C18 *)

\* The fixed-width hex rendering of address x: every digit, highest first.
FixedHex(x) ==
  [d \in 1..AddressDigits |-> kHexChars[((x \div (16 ^ (AddressDigits - d))) % 16) + 1]]

\* One line per address of st, in order: the prefix, the fixed-width hex
\* rendering of the address, the end of the line.
RECURSIVE AddressLines(_)
AddressLines(st) ==
  IF st = << >> THEN ""
  ELSE Join(TemplatePrefix \o FixedHex(Head(st))) \o "\n" \o AddressLines(Tail(st))

\* C18: when the capture succeeded and symbolize is false, printStackTrace
\* has printed, by its return, the safe mode notice and then one line per
\* captured address, in capture order, line i being the fixed-width hex
\* rendering of the i-th captured address.
C18_AddressOnlyOutput ==
  (ppc = "returned" /\ captureOk /\ ~symbolizeArg) =>
    Join(out) = "(safe mode, symbolizer not available)\n" \o AddressLines(stack)

----------------------------------------------------------------------------
(* C17 *)

\* C17: for the file descriptor sink, after any sequence of print calls of
\* sizes below, at and above the buffer size and of flush calls, the bytes
\* written to the descriptor followed by the bytes in the buffer are the
\* printed strings concatenated in call order, the buffer holds no more
\* than its capacity, and after flush() it is empty.
C17_SinkKeepsOrder ==
  /\ written \o buffer_ = printed
  /\ Len(buffer_) <= bufferSize
  /\ sinkOp = "flush" => buffer_ = ""

\* More bytes than the buffer holds have been written to the descriptor,
\* and a later print has left bytes in the buffer.
C17_Witness ==
  /\ bufferSize = SinkBufferSize
  /\ sinkOp = "print"
  /\ Len(written) > bufferSize
  /\ buffer_ # ""
  /\ written # "" /\ printed # written

----------------------------------------------------------------------------
(* C20 *)

\* C20: when a printStackTrace call returns, on whichever of its three
\* outcomes, it has flushed: all the text it printed has been written to
\* the descriptor, in order, and the buffer of the sink is empty.
C20_ReturnsFlushed ==
  (ppc = "returned") =>
    /\ flushed
    /\ printed = Join(out)
    /\ written = printed
    /\ buffer_ = ""

\* The safe printer, whose buffer holds all of the text until the flush,
\* has returned from a call that printed symbolized frames.
C20_Witness ==
  /\ ppc = "returned" /\ printerKind = "safe"
  /\ Outcome(captureOk, symbolizeArg) = "symbolized"
  /\ bufferSize = SafeBufferSize
  /\ Len(stack) > 2 /\ written # ""

----------------------------------------------------------------------------
(* C16 *)

\* The kinds of the pieces print(frame) has printed.
RenderedKinds == { rendered[p].kind : p \in 1..Len(rendered) }

\* print(frame) has printed a frame that is not found.
PrintedUnfound == rpc = "rendered" /\ ~frame_.found

\* C16 as claimed: for every combination of options, print(frame) of a
\* frame that is not found prints the "(not found)" marker and prints no
\* symbol name, no file path and no line number.
C16_UnfoundPrintsMarker ==
  PrintedUnfound =>
    /\ "marker" \in RenderedKinds
    /\ RenderedKinds \cap {"name", "file", "line"} = {}

\* C16 as amended: print(frame) of a frame that is not found prints no
\* symbol name, no file path and no line number under any combination of
\* options; without TERSE it prints the "(not found)" marker, once; with
\* TERSE it prints the address of the frame as "0x" and the fixed-width hex
\* digits, and nothing else.
C16_UnfoundPrintsMarkerUnlessTerse ==
  PrintedUnfound =>
    /\ RenderedKinds \cap {"name", "file", "line", "unknown"} = {}
    /\ "TERSE" \notin options_ =>
         Cardinality({ p \in 1..Len(rendered) : rendered[p].text = " (not found)" }) = 1
    /\ "TERSE" \in options_ =>
         rendered = << PieceOf("address", "0x" \o Join(FixedHex(frame_.addr))) >>

\* A terse printer has printed a frame that is not found although it
\* carries a name, a file and a line.
C16_Witness ==
  /\ PrintedUnfound
  /\ "TERSE" \in options_
  /\ frame_.name # "" /\ frame_.hasFileAndLine /\ frame_.addr # 0

----------------------------------------------------------------------------
(* C11 *)

\* The page size is positive, the context was captured, mmap returned a
\* region and both guard pages were protected.
SetupPassed ==
  /\ pageSizeUnchecked_ > 0
  /\ {"getcontext", "mmap", "mprotect low", "mprotect high"} \subseteq passed

\* swapcontext has switched to the context on the allocated stack.
Switched == "swapcontext" \in passed

\* C11: execution switches onto the allocated stack only if the page size is
\* positive, the context was captured, the mmap succeeded and both guard
\* page mprotect calls succeeded; when one of these fails, mmap included,
\* there is no context switch, no symbolization and no output.
C11_SwitchOnlyAfterSetup ==
  /\ Switched => SetupPassed
  /\ context = "alt" => Switched
  /\ ~Switched => (symbolizerCalls = 0 /\ out = << >> /\ printed = "")

\* A call on a printer with a page size has returned after mmap failed,
\* with a stack to print.
C11_Witness ==
  /\ apc = "returned"
  /\ pageSizeUnchecked_ > 0 /\ pageSizeUnchecked_ * 2 < kMmapStackSize
  /\ "getcontext" \in passed /\ ptr = "MAP_FAILED"
  /\ Len(stack) > 2

----------------------------------------------------------------------------
(* C12 *)

\* C12: every call resumes the original context and returns to its caller,
\* on every path; a region that was mapped is unmapped when the call has
\* returned, and is mapped for as long as the other context runs on it.
C12_ResumesAndUnmaps ==
  /\ [](apc = "returned" => (context = "cur" /\ region # "mapped"))
  /\ [](context = "alt" => region = "mapped")
  /\ (apc = "entered") ~> (apc = "returned" /\ context = "cur")

\* A call has returned after the symbolized trace was printed from the
\* allocated stack, which is unmapped.
C12_Witness ==
  /\ apc = "returned" /\ Switched
  /\ region = "unmapped" /\ context = "cur"
  /\ symbolizerCalls = 1 /\ out # << >>

----------------------------------------------------------------------------
(* C13 *)

\* The positions at which a thread looks an address up in the symbol cache,
\* copies the frames of an entry out, or inserts.
CacheAccess == { "find", "copy", "miss", "locked set" }

\* The positions at which a thread calls the object cache or the debug info
\* service, or waits for the lock.
Outside == { "idle", "wlock", "resolve", "set" }

\* C13: with several threads in symbolize on one Symbolizer with a symbol
\* cache, a thread that looks up, copies out of an entry or inserts holds
\* the exclusive lock of the cache, so no two threads do so at once; and a
\* thread that calls the object or debug info services does not hold it.
C13_CacheUnderExclusiveLock ==
  /\ \A t \in Threads : tpc[t] \in CacheAccess => wlockHolder = t
  /\ \A t \in Threads : tpc[t] \in Outside => wlockHolder # t
  /\ Cardinality({ t \in Threads : tpc[t] \in CacheAccess }) <= 1

\* One thread is copying the frames of an entry out while another waits for
\* the lock to insert.
C13_Witness ==
  \E t \in Threads, u \in Threads :
    /\ t # u
    /\ tpc[t] = "copy" /\ wlockHolder = t
    /\ tpc[u] = "set"

----------------------------------------------------------------------------
(* C21 *)

\* allocateStack has returned a non-empty pointer (line 616).
AllocSucceeded == {"mmap", "mprotect low", "mprotect high"} \subseteq passed

\* allocateStack has returned an empty pointer (lines 597, 601, 605, 609),
\* so that the call has returned (line 638).
AllocFailed == apc = "returned" /\ ~AllocSucceeded

\* The usable stack [StackFrom, StackTo) handed to the context, as offsets
\* into the region.
StackFrom == ucStack.sp

StackTo == ucStack.sp + ucStack.size

\* C21: when allocateStack succeeds, the stack handed to the alternate
\* context is not empty, lies inside the mapped region, starts at a multiple
\* of the page size where the protected first page ends, ends where the
\* protected tail begins, and overlaps no guard (the region being mapped
\* until the call returns); with
\* 2 * pageSize >= kMmapStackSize, allocateStack does not get as far as the
\* guards and does not succeed.
C21_StackBetweenGuards ==
  /\ AllocSucceeded =>
       /\ apc # "returned" => region = "mapped"
       /\ ucStack.size > 0
       /\ 0 <= StackFrom /\ StackTo <= kMmapStackSize
       /\ StackFrom % pageSizeUnchecked_ = 0
       /\ StackFrom = pageSizeUnchecked_
       /\ [from |-> 0, to |-> StackFrom] \in guards
       /\ [from |-> StackTo, to |-> kMmapStackSize] \in guards
       /\ \A g \in guards : g.to <= StackFrom \/ g.from >= StackTo
  /\ pageSizeUnchecked_ * 2 >= kMmapStackSize =>
       /\ ~AllocSucceeded
       /\ apc # "mprotect"
       /\ guards = {} /\ ucStack = [sp |-> 0, size |-> 0]

\* allocateStack has succeeded with the largest page size that leaves room
\* for a stack: two pages between the guards.
C21_Witness ==
  /\ AllocSucceeded /\ apc = "swapcontext"
  /\ pageSizeUnchecked_ * 4 = kMmapStackSize
  /\ ucStack.size = 2 * pageSizeUnchecked_

\* allocateStack has failed although mmap returned a region: the page size
\* is half the size of the region.
C21_WitnessTooLarge ==
  /\ AllocFailed /\ ptr = "stack"
  /\ pageSizeUnchecked_ * 2 = kMmapStackSize

============================================================================
